---- MODULE Spec2Model ----
(***************************************************************************)
(* Model of src/lib.rs: the Bluetooth Class-of-Device encoder.             *)
(*                                                                         *)
(* A u32 is represented by the set of its set bit positions (a subset of   *)
(* 0..31); bitwise OR is then set union, `1 << n` is {n}, and a value lies *)
(* in [0, 2^k - 1] exactly when its bits lie in 0..k-1.  This keeps the    *)
(* full 32-bit width, including bit 31.                                    *)
(***************************************************************************)
EXTENDS Integers, FiniteSets, Sequences, TLC

VARIABLES pc, service, device, ret

vars == <<pc, service, device, ret>>

(* Largest small raw minor_device_class value enumerated exhaustively.     *)
MaxRaw == 8

(* ----------------------------- u32 values ------------------------------ *)

BitPositions == 0..31

(* The u32 whose value is the literal n (0 <= n < 2^31).                   *)
u32(n) == {i \in 0..30 : (n \div (2^i)) % 2 = 1}

(* a | b on u32.                                                           *)
BitOr(a, b) == a \cup b

(* a << n on u32 (bits shifted past bit 31 are lost).                      *)
Shl(a, n) == {i + n : i \in a} \cap BitPositions

(* --------------------------- MajorServiceClass ------------------------- *)

MajorServiceClass ==
    [limited_discoverable_mode : BOOLEAN, le_audio : BOOLEAN,
     positioning : BOOLEAN, networking : BOOLEAN, rendering : BOOLEAN,
     capturing : BOOLEAN, object_transfer : BOOLEAN, audio : BOOLEAN,
     telephony : BOOLEAN, information : BOOLEAN]

MajorServiceClass_empty ==
    [limited_discoverable_mode |-> FALSE, le_audio |-> FALSE,
     positioning |-> FALSE, networking |-> FALSE, rendering |-> FALSE,
     capturing |-> FALSE, object_transfer |-> FALSE, audio |-> FALSE,
     telephony |-> FALSE, information |-> FALSE]

(* #[derive(Default)]: every bool field is false.                          *)
MajorServiceClass_default ==
    [f \in DOMAIN MajorServiceClass_empty |-> FALSE]

major_service_class_bit15(self) ==
    BitOr(BitOr(BitOr(BitOr(BitOr(BitOr(BitOr(BitOr(BitOr(BitOr(u32(0),
        IF self.limited_discoverable_mode THEN Shl(u32(1), 13) ELSE u32(0)),
        IF self.le_audio THEN Shl(u32(1), 14) ELSE u32(0)),
        IF self.positioning THEN Shl(u32(1), 15) ELSE u32(0)),
        IF self.networking THEN Shl(u32(1), 17) ELSE u32(0)),
        IF self.rendering THEN Shl(u32(1), 18) ELSE u32(0)),
        IF self.capturing THEN Shl(u32(1), 19) ELSE u32(0)),
        IF self.object_transfer THEN Shl(u32(1), 20) ELSE u32(0)),
        IF self.audio THEN Shl(u32(1), 21) ELSE u32(0)),
        IF self.telephony THEN Shl(u32(1), 22) ELSE u32(0)),
        IF self.information THEN Shl(u32(1), 23) ELSE u32(0))

major_service_class(self) ==
    BitOr(BitOr(BitOr(BitOr(BitOr(BitOr(BitOr(BitOr(BitOr(BitOr(u32(0),
        IF self.limited_discoverable_mode THEN Shl(u32(1), 13) ELSE u32(0)),
        IF self.le_audio THEN Shl(u32(1), 14) ELSE u32(0)),
        IF self.positioning THEN Shl(u32(1), 16) ELSE u32(0)),
        IF self.networking THEN Shl(u32(1), 17) ELSE u32(0)),
        IF self.rendering THEN Shl(u32(1), 18) ELSE u32(0)),
        IF self.capturing THEN Shl(u32(1), 19) ELSE u32(0)),
        IF self.object_transfer THEN Shl(u32(1), 20) ELSE u32(0)),
        IF self.audio THEN Shl(u32(1), 21) ELSE u32(0)),
        IF self.telephony THEN Shl(u32(1), 22) ELSE u32(0)),
        IF self.information THEN Shl(u32(1), 23) ELSE u32(0))

(* ------------------------------ Miscellaneous -------------------------- *)

Miscellaneous_major_device_class == u32(0)      \* 0x0000

Miscellaneous_minor_device_class(self) == self.minor_device_class

(* -------------------------------- Computer ----------------------------- *)

Computer ==
    {"Uncategorized", "DesktopWorkstation", "ServerClassComputer", "Laptop",
     "HandheldPcPda", "PalmSizedPcPda", "WearableComputer", "Tablet"}

Computer_major_device_class == u32(256)         \* 0x0100

Computer_minor_device_class_dup(self) ==
    CASE self = "Uncategorized"       -> u32(0)
      [] self = "DesktopWorkstation"  -> u32(4)
      [] self = "ServerClassComputer" -> u32(8)
      [] self = "Laptop"              -> u32(12)
      [] self = "HandheldPcPda"       -> u32(16)
      [] self = "PalmSizedPcPda"      -> u32(16)
      [] self = "WearableComputer"    -> u32(24)
      [] self = "Tablet"              -> u32(28)

Computer_minor_device_class(self) ==
    CASE self = "Uncategorized"       -> u32(0)     \* 0x00
      [] self = "DesktopWorkstation"  -> u32(4)     \* 0x04
      [] self = "ServerClassComputer" -> u32(8)     \* 0x08
      [] self = "Laptop"              -> u32(12)    \* 0x0C
      [] self = "HandheldPcPda"       -> u32(16)    \* 0x10
      [] self = "PalmSizedPcPda"      -> u32(20)    \* 0x14
      [] self = "WearableComputer"    -> u32(24)    \* 0x18
      [] self = "Tablet"              -> u32(28)    \* 0x1C

(* --------------------------------- Phone ------------------------------- *)

Phone ==
    {"Uncategorized", "Cellular", "Cordless", "Smartphone",
     "WiredModemOrVoiceGateway", "CommonIsdnAccess"}

Phone_major_device_class == u32(512)            \* 0x0200

Phone_minor_device_class(self) ==
    CASE self = "Uncategorized"            -> u32(0)     \* 0x00
      [] self = "Cellular"                 -> u32(4)     \* 0x04
      [] self = "Cordless"                 -> u32(8)     \* 0x08
      [] self = "Smartphone"               -> u32(12)    \* 0x0C
      [] self = "WiredModemOrVoiceGateway" -> u32(16)    \* 0x10
      [] self = "CommonIsdnAccess"         -> u32(20)    \* 0x14

(* -------------------------- LanNetworkAccessPoint ---------------------- *)

LanNetworkAccessPoint ==
    {"FullyAvailable", "Utilized1To17Percent", "Utilized17To33Percent",
     "Utilized33To50Percent", "Utilized50To67Percent",
     "Utilized67To83Percent", "Utilized83To99Percent", "NoServiceAvailable"}

LanNetworkAccessPoint_major_device_class == u32(768)    \* 0x0300

LanNetworkAccessPoint_minor_device_class_shifted(self) ==
    CASE self = "FullyAvailable"        -> u32(0)
      [] self = "Utilized1To17Percent"  -> u32(64)
      [] self = "Utilized17To33Percent" -> u32(128)
      [] self = "Utilized33To50Percent" -> u32(192)
      [] self = "Utilized50To67Percent" -> u32(256)
      [] self = "Utilized67To83Percent" -> u32(320)
      [] self = "Utilized83To99Percent" -> u32(384)
      [] self = "NoServiceAvailable"    -> u32(448)

LanNetworkAccessPoint_minor_device_class(self) ==
    CASE self = "FullyAvailable"        -> u32(0)      \* 0x00
      [] self = "Utilized1To17Percent"  -> u32(32)     \* 0x20
      [] self = "Utilized17To33Percent" -> u32(64)     \* 0x40
      [] self = "Utilized33To50Percent" -> u32(96)     \* 0x60
      [] self = "Utilized50To67Percent" -> u32(128)    \* 0x80
      [] self = "Utilized67To83Percent" -> u32(160)    \* 0xA0
      [] self = "Utilized83To99Percent" -> u32(192)    \* 0xC0
      [] self = "NoServiceAvailable"    -> u32(224)    \* 0xE0

(* ------------------------------- AudioVideo ---------------------------- *)

AudioVideo ==
    {"Uncategorized", "WearableHeadsetDevice", "HandsFreeDevice",
     "Microphone", "Loudspeaker", "Headphones", "PortableAudio", "CarAudio",
     "SetTopBox", "HiFiAudioDevice", "Vcr", "VideoCamera", "Camcorder",
     "VideoMonitor", "VideoDisplayAndLoudspeaker", "VideoConferencing",
     "GamingToy"}

AudioVideo_major_device_class == u32(1280)      \* 0x0500

AudioVideo_minor_device_class_wide(self) ==
    CASE self = "Uncategorized"              -> u32(0)
      [] self = "WearableHeadsetDevice"      -> u32(16)
      [] self = "HandsFreeDevice"            -> u32(32)
      [] self = "Microphone"                 -> u32(64)
      [] self = "Loudspeaker"                -> u32(80)
      [] self = "Headphones"                 -> u32(96)
      [] self = "PortableAudio"              -> u32(112)
      [] self = "CarAudio"                   -> u32(128)
      [] self = "SetTopBox"                  -> u32(144)
      [] self = "HiFiAudioDevice"            -> u32(160)
      [] self = "Vcr"                        -> u32(176)
      [] self = "VideoCamera"                -> u32(192)
      [] self = "Camcorder"                  -> u32(208)
      [] self = "VideoMonitor"               -> u32(224)
      [] self = "VideoDisplayAndLoudspeaker" -> u32(240)
      [] self = "VideoConferencing"          -> u32(256)
      [] self = "GamingToy"                  -> u32(288)

AudioVideo_minor_device_class(self) ==
    CASE self = "Uncategorized"              -> u32(0)     \* 0x00
      [] self = "WearableHeadsetDevice"      -> u32(4)     \* 0x04
      [] self = "HandsFreeDevice"            -> u32(8)     \* 0x08
      [] self = "Microphone"                 -> u32(16)    \* 0x10
      [] self = "Loudspeaker"                -> u32(20)    \* 0x14
      [] self = "Headphones"                 -> u32(24)    \* 0x18
      [] self = "PortableAudio"              -> u32(28)    \* 0x1C
      [] self = "CarAudio"                   -> u32(32)    \* 0x20
      [] self = "SetTopBox"                  -> u32(36)    \* 0x24
      [] self = "HiFiAudioDevice"            -> u32(40)    \* 0x28
      [] self = "Vcr"                        -> u32(44)    \* 0x2C
      [] self = "VideoCamera"                -> u32(48)    \* 0x30
      [] self = "Camcorder"                  -> u32(52)    \* 0x34
      [] self = "VideoMonitor"               -> u32(56)    \* 0x38
      [] self = "VideoDisplayAndLoudspeaker" -> u32(60)    \* 0x3C
      [] self = "VideoConferencing"          -> u32(64)    \* 0x40
      [] self = "GamingToy"                  -> u32(72)    \* 0x48

(* ------------------------------- Peripheral ---------------------------- *)

PeripheralUpper ==
    {"Uncategorized", "Keyboard", "PointingDevice",
     "ComboKeyboardPointingDevice"}

PeripheralUpper_code(self) ==
    CASE self = "Uncategorized"               -> u32(0)      \* 0x00
      [] self = "Keyboard"                    -> u32(64)     \* 0x40
      [] self = "PointingDevice"              -> u32(128)    \* 0x80
      [] self = "ComboKeyboardPointingDevice" -> u32(192)    \* 0xC0

PeripheralLower ==
    {"Uncategorized", "Joystick", "Gamepad", "RemoteControl", "SensingDevice",
     "DigitizerTablet", "CardReader", "DigitalPen", "HandheldScanner",
     "HandheldGesturalInputDevice"}

PeripheralLower_code(self) ==
    CASE self = "Uncategorized"               -> u32(0)     \* 0x00
      [] self = "Joystick"                    -> u32(4)     \* 0x04
      [] self = "Gamepad"                     -> u32(8)     \* 0x08
      [] self = "RemoteControl"               -> u32(12)    \* 0x0C
      [] self = "SensingDevice"               -> u32(16)    \* 0x10
      [] self = "DigitizerTablet"             -> u32(20)    \* 0x14
      [] self = "CardReader"                  -> u32(24)    \* 0x18
      [] self = "DigitalPen"                  -> u32(28)    \* 0x1C
      [] self = "HandheldScanner"             -> u32(32)    \* 0x20
      [] self = "HandheldGesturalInputDevice" -> u32(36)    \* 0x24

Peripheral_new(upper, lower) ==
    [cat |-> "Peripheral", upper |-> upper, lower |-> lower]

Peripheral_major_device_class == u32(1280)      \* 0x0500

Peripheral_minor_device_class_upper_only(self) ==
    PeripheralUpper_code(self.upper)

Peripheral_minor_device_class(self) ==
    BitOr(PeripheralUpper_code(self.upper), PeripheralLower_code(self.lower))

(* --------------------------------- Imaging ----------------------------- *)

Imaging_major_device_class == u32(1536)         \* 0x0600

Imaging_minor_device_class_clash(self) ==
    BitOr(BitOr(BitOr(BitOr(u32(0),
        IF self.display THEN Shl(u32(1), 5) ELSE u32(0)),
        IF self.camera THEN Shl(u32(1), 5) ELSE u32(0)),
        IF self.scanner THEN Shl(u32(1), 6) ELSE u32(0)),
        IF self.printer THEN Shl(u32(1), 7) ELSE u32(0))

Imaging_minor_device_class(self) ==
    BitOr(BitOr(BitOr(BitOr(u32(0),
        IF self.display THEN Shl(u32(1), 4) ELSE u32(0)),
        IF self.camera THEN Shl(u32(1), 5) ELSE u32(0)),
        IF self.scanner THEN Shl(u32(1), 6) ELSE u32(0)),
        IF self.printer THEN Shl(u32(1), 7) ELSE u32(0))

(* -------------------------------- Wearable ----------------------------- *)

Wearable == {"Wristwatch", "Pager", "Jacket", "Helmet", "Glasses", "Pin"}

Wearable_major_device_class == u32(1792)        \* 0x0700

Wearable_minor_device_class(self) ==
    CASE self = "Wristwatch" -> u32(4)     \* 0x04
      [] self = "Pager"      -> u32(8)     \* 0x08
      [] self = "Jacket"     -> u32(12)    \* 0x0C
      [] self = "Helmet"     -> u32(16)    \* 0x10
      [] self = "Glasses"    -> u32(20)    \* 0x14
      [] self = "Pin"        -> u32(24)    \* 0x18

(* ---------------------------------- Toy -------------------------------- *)

Toy == {"Robot", "Vehicle", "DollActionFigure", "Controller", "Game"}

Toy_major_device_class == u32(2048)             \* 0x0800

Toy_minor_device_class_from_zero(self) ==
    CASE self = "Robot"            -> u32(0)
      [] self = "Vehicle"          -> u32(4)
      [] self = "DollActionFigure" -> u32(8)
      [] self = "Controller"       -> u32(12)
      [] self = "Game"             -> u32(16)

Toy_minor_device_class(self) ==
    CASE self = "Robot"            -> u32(4)     \* 0x04
      [] self = "Vehicle"          -> u32(8)     \* 0x08
      [] self = "DollActionFigure" -> u32(12)    \* 0x0C
      [] self = "Controller"       -> u32(16)    \* 0x10
      [] self = "Game"             -> u32(20)    \* 0x14

(* --------------------------------- Health ------------------------------ *)

Health ==
    {"Undefined", "BloodPressureMonitor", "Thermometer", "WeighingScale",
     "GlucoseMeter", "PulseOximeter", "HeartPulseRateMonitor",
     "HealthDataDisplay", "StepCounter", "BodyCompositionAnalyzer",
     "PeakFlowMonitor", "MedicationMonitor", "KneeProsthesis",
     "AnkleProsthesis", "GenericHealthManager", "PersonalMobilityDevice"}

Health_major_device_class_toy == u32(2048)

Health_major_device_class == u32(2304)          \* 0x0900

Health_minor_device_class(self) ==
    CASE self = "Undefined"               -> u32(0)     \* 0x00
      [] self = "BloodPressureMonitor"    -> u32(4)     \* 0x04
      [] self = "Thermometer"             -> u32(8)     \* 0x08
      [] self = "WeighingScale"           -> u32(12)    \* 0x0C
      [] self = "GlucoseMeter"            -> u32(16)    \* 0x10
      [] self = "PulseOximeter"           -> u32(20)    \* 0x14
      [] self = "HeartPulseRateMonitor"   -> u32(24)    \* 0x18
      [] self = "HealthDataDisplay"       -> u32(28)    \* 0x1C
      [] self = "StepCounter"             -> u32(32)    \* 0x20
      [] self = "BodyCompositionAnalyzer" -> u32(36)    \* 0x24
      [] self = "PeakFlowMonitor"         -> u32(40)    \* 0x28
      [] self = "MedicationMonitor"       -> u32(44)    \* 0x2C
      [] self = "KneeProsthesis"          -> u32(48)    \* 0x30
      [] self = "AnkleProsthesis"         -> u32(52)    \* 0x34
      [] self = "GenericHealthManager"    -> u32(56)    \* 0x38
      [] self = "PersonalMobilityDevice"  -> u32(60)    \* 0x3C

(* ------------------------------ Uncategorized -------------------------- *)

Uncategorized_major_device_class == u32(7936)   \* 0x1F00

Uncategorized_minor_device_class_masked(self) ==
    self.minor_device_class \cap (2..7)

Uncategorized_minor_device_class(self) == self.minor_device_class

(* ------------------- trait dispatch and the composer ------------------- *)

EnumCategories ==
    {"Computer", "Phone", "LanNetworkAccessPoint", "AudioVideo", "Wearable",
     "Toy", "Health"}

PassthroughCategories == {"Miscellaneous", "Uncategorized"}

Categories ==
    EnumCategories \cup {"Peripheral", "Imaging"} \cup PassthroughCategories

(* <T as MajorDeviceClass>::major_device_class()                           *)
major_device_class(T) ==
    CASE T = "Miscellaneous"         -> Miscellaneous_major_device_class
      [] T = "Computer"              -> Computer_major_device_class
      [] T = "Phone"                 -> Phone_major_device_class
      [] T = "LanNetworkAccessPoint" -> LanNetworkAccessPoint_major_device_class
      [] T = "AudioVideo"            -> AudioVideo_major_device_class
      [] T = "Peripheral"            -> Peripheral_major_device_class
      [] T = "Imaging"               -> Imaging_major_device_class
      [] T = "Wearable"              -> Wearable_major_device_class
      [] T = "Toy"                   -> Toy_major_device_class
      [] T = "Health"                -> Health_major_device_class
      [] T = "Uncategorized"         -> Uncategorized_major_device_class

(* <T as MinorDeviceClass>::minor_device_class(&self)                      *)
minor_device_class(self) ==
    CASE self.cat = "Miscellaneous" -> Miscellaneous_minor_device_class(self)
      [] self.cat = "Computer"      -> Computer_minor_device_class(self.v)
      [] self.cat = "Phone"         -> Phone_minor_device_class(self.v)
      [] self.cat = "LanNetworkAccessPoint" ->
             LanNetworkAccessPoint_minor_device_class(self.v)
      [] self.cat = "AudioVideo"    -> AudioVideo_minor_device_class(self.v)
      [] self.cat = "Peripheral"    -> Peripheral_minor_device_class(self)
      [] self.cat = "Imaging"       -> Imaging_minor_device_class(self)
      [] self.cat = "Wearable"      -> Wearable_minor_device_class(self.v)
      [] self.cat = "Toy"           -> Toy_minor_device_class(self.v)
      [] self.cat = "Health"        -> Health_minor_device_class(self.v)
      [] self.cat = "Uncategorized" -> Uncategorized_minor_device_class(self)

device_class_major_only(self) == major_device_class(self.cat)

device_class(self) ==
    BitOr(major_device_class(self.cat), minor_device_class(self))

make_class_of_device(major_service_class_arg, device_class_arg) ==
    BitOr(major_service_class(major_service_class_arg),
          device_class(device_class_arg))

(* ------------------------------- inputs -------------------------------- *)

Variants(T) ==
    CASE T = "Computer"              -> Computer
      [] T = "Phone"                 -> Phone
      [] T = "LanNetworkAccessPoint" -> LanNetworkAccessPoint
      [] T = "AudioVideo"            -> AudioVideo
      [] T = "Wearable"              -> Wearable
      [] T = "Toy"                   -> Toy
      [] T = "Health"                -> Health

EnumDevices ==
    UNION {{[cat |-> T, v |-> x] : x \in Variants(T)} : T \in EnumCategories}

PeripheralDevices ==
    {Peripheral_new(u, l) : u \in PeripheralUpper, l \in PeripheralLower}

ImagingDevices ==
    [cat : {"Imaging"}, display : BOOLEAN, camera : BOOLEAN,
     scanner : BOOLEAN, printer : BOOLEAN]

(* Raw u32 field values: every small value, every single bit, every mask   *)
(* of the low k bits (up to 0xFFFFFFFF).                                   *)
RawValues ==
    {u32(n) : n \in 0..MaxRaw} \cup {{i} : i \in BitPositions}
        \cup {0..i : i \in BitPositions}

PassthroughDevices ==
    [cat : PassthroughCategories, minor_device_class : RawValues]

Devices ==
    EnumDevices \cup PeripheralDevices \cup ImagingDevices
        \cup PassthroughDevices

NoDevice == [cat |-> "None"]

(* ----------------------------- state machine --------------------------- *)

Init ==
    /\ pc = "start"
    /\ service = MajorServiceClass_empty
    /\ device = NoDevice
    /\ ret = u32(0)

CallMajorServiceClass ==
    /\ pc = "start"
    /\ \E s \in MajorServiceClass :
        /\ pc' = "major_service_class"
        /\ service' = s
        /\ device' = NoDevice
        /\ ret' = major_service_class(s)

CallMajorDeviceClass ==
    /\ pc = "start"
    /\ \E d \in Devices :
        /\ pc' = "major_device_class"
        /\ service' = MajorServiceClass_empty
        /\ device' = d
        /\ ret' = major_device_class(d.cat)

CallMinorDeviceClass ==
    /\ pc = "start"
    /\ \E d \in Devices :
        /\ pc' = "minor_device_class"
        /\ service' = MajorServiceClass_empty
        /\ device' = d
        /\ ret' = minor_device_class(d)

CallDeviceClass ==
    /\ pc = "start"
    /\ \E d \in Devices :
        /\ pc' = "device_class"
        /\ service' = MajorServiceClass_empty
        /\ device' = d
        /\ ret' = device_class(d)

CallMakeClassOfDevice ==
    /\ pc = "start"
    /\ \E s \in MajorServiceClass, d \in Devices :
        /\ pc' = "make_class_of_device"
        /\ service' = s
        /\ device' = d
        /\ ret' = make_class_of_device(s, d)

Next ==
    \/ CallMajorServiceClass
    \/ CallMajorDeviceClass
    \/ CallMinorDeviceClass
    \/ CallDeviceClass
    \/ CallMakeClassOfDevice

Spec == Init /\ [][Next]_vars

TypeOK ==
    /\ pc \in {"start", "major_service_class", "major_device_class",
               "minor_device_class", "device_class", "make_class_of_device"}
    /\ service \in MajorServiceClass
    /\ device \in Devices \cup {NoDevice}
    /\ ret \subseteq BitPositions

(* ------------------------------ properties ----------------------------- *)

BitAnd(a, b) == a \cap b

Flags == DOMAIN MajorServiceClass_empty

(* The bit position the specification assigns to each service flag.        *)
FlagBit(f) ==
    CASE f = "limited_discoverable_mode" -> 13
      [] f = "le_audio"                  -> 14
      [] f = "positioning"               -> 16
      [] f = "networking"                -> 17
      [] f = "rendering"                 -> 18
      [] f = "capturing"                 -> 19
      [] f = "object_transfer"           -> 20
      [] f = "audio"                     -> 21
      [] f = "telephony"                 -> 22
      [] f = "information"               -> 23

SetFlags(s) == {f \in Flags : s[f]}

(* The service descriptor whose true flags are exactly those in A.         *)
ServiceWith(A) ==
    [limited_discoverable_mode |-> "limited_discoverable_mode" \in A,
     le_audio |-> "le_audio" \in A, positioning |-> "positioning" \in A,
     networking |-> "networking" \in A, rendering |-> "rendering" \in A,
     capturing |-> "capturing" \in A,
     object_transfer |-> "object_transfer" \in A, audio |-> "audio" \in A,
     telephony |-> "telephony" \in A, information |-> "information" \in A]

ImagingFlags == {"display", "camera", "scanner", "printer"}

ImagingBit(f) ==
    CASE f = "display" -> 4
      [] f = "camera"  -> 5
      [] f = "scanner" -> 6
      [] f = "printer" -> 7

ImagingSetFlags(d) == {f \in ImagingFlags : d[f]}

ImagingWith(A) ==
    [cat |-> "Imaging", display |-> "display" \in A, camera |-> "camera" \in A,
     scanner |-> "scanner" \in A, printer |-> "printer" \in A]

IsPassthrough(d) == d.cat \in PassthroughCategories

(* C1: make_class_of_device(s, d) is exactly major_service_class(s) |      *)
(* major_device_class(category of d) | minor_device_class(d), and          *)
(* device_class(d) is exactly major_device_class | minor_device_class, for *)
(* every descriptor and every device value.                                *)
C1_Composition ==
    /\ pc = "make_class_of_device" =>
           ret = BitOr(BitOr(major_service_class(service),
                             major_device_class(device.cat)),
                       minor_device_class(device))
    /\ pc = "device_class" =>
           ret = BitOr(major_device_class(device.cat),
                       minor_device_class(device))

C1_Witness ==
    /\ pc = "make_class_of_device"
    /\ service.networking /\ service.information /\ ~service.audio
    /\ device = Peripheral_new("PointingDevice", "Gamepad")
    /\ ret = {3, 7, 8, 10, 17, 23}

(* C2: bit p of major_service_class() is set iff the flag assigned to p is *)
(* true (13,14,16..23); no other bit, in particular not bit 15, is ever    *)
(* set; empty() and the Default descriptor encode to 0.                    *)
C2_ServiceBits ==
    pc = "major_service_class" =>
        /\ \A p \in BitPositions :
               p \in ret <=> \E f \in Flags : FlagBit(f) = p /\ service[f]
        /\ ret \subseteq ({13, 14} \cup (16..23))
        /\ 15 \notin ret
        /\ service = MajorServiceClass_empty => ret = u32(0)
        /\ service = MajorServiceClass_default => ret = u32(0)

C2_Witness ==
    /\ pc = "major_service_class"
    /\ service.positioning /\ service.le_audio /\ ~service.networking
    /\ 16 \in ret /\ 14 \in ret /\ 17 \notin ret

(* C3 as stated: minor_device_class() of every non-passthrough category    *)
(* value lies in [0, 0x3F].                                                *)
C3_MinorWithin3F ==
    (pc = "minor_device_class" /\ ~IsPassthrough(device)) =>
        ret \subseteq 0..5

(* C3 amended: minor_device_class() of every non-passthrough category      *)
(* value has set bits only in bits 2-7, i.e. lies in [0, 0xFC].            *)
C3_MinorWithinBits2To7 ==
    (pc = "minor_device_class" /\ ~IsPassthrough(device)) =>
        ret \subseteq 2..7

C3_Witness ==
    /\ pc = "minor_device_class"
    /\ device = [cat |-> "LanNetworkAccessPoint", v |-> "NoServiceAvailable"]
    /\ ret = u32(224)

(* C4: for a non-passthrough device the three fields of                    *)
(* make_class_of_device(s, d) do not overlap: masked with 0xFFE000 the     *)
(* result is major_service_class(s), with 0x1F00 the major code, with 0xFC *)
(* the minor code, and bits 0-1 and 24-31 are zero.                        *)
C4_FieldsDisjoint ==
    (pc = "make_class_of_device" /\ ~IsPassthrough(device)) =>
        /\ BitAnd(ret, u32(16769024)) = major_service_class(service)
        /\ BitAnd(ret, u32(7936)) = major_device_class(device.cat)
        /\ BitAnd(ret, u32(252)) = minor_device_class(device)
        /\ BitAnd(ret, {0, 1} \cup (24..31)) = u32(0)

C4_Witness ==
    /\ pc = "make_class_of_device"
    /\ device = [cat |-> "AudioVideo", v |-> "GamingToy"]
    /\ SetFlags(service) = {"limited_discoverable_mode", "information"}
    /\ ret = {3, 6, 8, 10, 13, 23}

(* C5: Peripheral's minor code is code(upper) | code(lower) for all 40     *)
(* combinations; the upper codes are {0x00,0x40,0x80,0xC0}, the lower      *)
(* codes 0x00,0x04,...,0x24; the 40 minor codes are pairwise distinct.     *)
C5_Peripheral ==
    (pc = "minor_device_class" /\ device.cat = "Peripheral") =>
        /\ ret = BitOr(PeripheralUpper_code(device.upper),
                       PeripheralLower_code(device.lower))
        /\ PeripheralUpper_code(device.upper)
               \in {u32(0), u32(64), u32(128), u32(192)}
        /\ PeripheralLower_code(device.lower) \in {u32(4 * k) : k \in 0..9}
        /\ {PeripheralUpper_code(u) : u \in PeripheralUpper}
               = {u32(0), u32(64), u32(128), u32(192)}
        /\ {PeripheralLower_code(l) : l \in PeripheralLower}
               = {u32(4 * k) : k \in 0..9}
        /\ \A d \in PeripheralDevices :
               d # device => minor_device_class(d) # ret

C5_Witness ==
    /\ pc = "minor_device_class"
    /\ device = Peripheral_new("ComboKeyboardPointingDevice",
                               "HandheldGesturalInputDevice")
    /\ ret = u32(228)

(* C6: for the flag descriptors (service class, Imaging) a single flag F   *)
(* encodes to exactly 1 << bit(F), no flag to 0, and the encoding of a     *)
(* union of two disjoint flag sets is the OR of their encodings.           *)
C6_FlagSuperposition ==
    /\ pc = "major_service_class" =>
           /\ \A f \in Flags :
                  SetFlags(service) = {f} => ret = Shl(u32(1), FlagBit(f))
           /\ SetFlags(service) = {} => ret = u32(0)
           /\ \A A \in SUBSET SetFlags(service) :
                  ret = BitOr(major_service_class(ServiceWith(A)),
                              major_service_class(
                                  ServiceWith(SetFlags(service) \ A)))
    /\ (pc = "minor_device_class" /\ device.cat = "Imaging") =>
           /\ \A f \in ImagingFlags :
                  ImagingSetFlags(device) = {f}
                      => ret = Shl(u32(1), ImagingBit(f))
           /\ ImagingSetFlags(device) = {} => ret = u32(0)
           /\ \A A \in SUBSET ImagingSetFlags(device) :
                  ret = BitOr(Imaging_minor_device_class(ImagingWith(A)),
                              Imaging_minor_device_class(
                                  ImagingWith(ImagingSetFlags(device) \ A)))

C6_Witness ==
    /\ pc = "minor_device_class"
    /\ device.cat = "Imaging"
    /\ ImagingSetFlags(device) = {"display", "printer"}
    /\ ret = {4, 7}

(* The specification's table of major codes.                               *)
MajorCodeTable(T) ==
    CASE T = "Miscellaneous"         -> 0         \* 0x0000
      [] T = "Computer"              -> 256       \* 0x0100
      [] T = "Phone"                 -> 512       \* 0x0200
      [] T = "LanNetworkAccessPoint" -> 768       \* 0x0300
      [] T = "AudioVideo"            -> 1280      \* 0x0500
      [] T = "Peripheral"            -> 1280      \* 0x0500
      [] T = "Imaging"               -> 1536      \* 0x0600
      [] T = "Wearable"              -> 1792      \* 0x0700
      [] T = "Toy"                   -> 2048      \* 0x0800
      [] T = "Health"                -> 2304      \* 0x0900
      [] T = "Uncategorized"         -> 7936      \* 0x1F00

(* C7: major_device_class() of a category is the table constant whatever   *)
(* the instance, has set bits only in bits 8-12, and differs from every    *)
(* other category's constant except that AudioVideo and Peripheral share   *)
(* 0x0500.                                                                 *)
C7_MajorCodes ==
    pc = "major_device_class" =>
        /\ ret = u32(MajorCodeTable(device.cat))
        /\ ret \subseteq 8..12
        /\ \A T \in Categories \ {device.cat} :
               major_device_class(T) = ret
                   <=> {T, device.cat} = {"AudioVideo", "Peripheral"}

C7_Witness ==
    /\ pc = "major_device_class"
    /\ device = [cat |-> "Health", v |-> "Thermometer"]
    /\ ret = u32(2304)

(* C8: the five regression fixtures: default service class with            *)
(* Computer::Laptop -> 0x010C, Phone::Smartphone -> 0x020C,                *)
(* Peripheral(Keyboard, Joystick) -> 0x0544, Uncategorized{0x3F} ->        *)
(* 0x1F3F; audio+telephony with Toy::Robot -> 0x600804.                    *)
C8_Fixtures ==
    pc = "make_class_of_device" =>
        /\ (service = MajorServiceClass_default
                /\ device = [cat |-> "Computer", v |-> "Laptop"])
               => ret = u32(268)
        /\ (service = MajorServiceClass_default
                /\ device = [cat |-> "Phone", v |-> "Smartphone"])
               => ret = u32(524)
        /\ (service = MajorServiceClass_default
                /\ device = Peripheral_new("Keyboard", "Joystick"))
               => ret = u32(1348)
        /\ (service = MajorServiceClass_default
                /\ device = [cat |-> "Uncategorized",
                             minor_device_class |-> u32(63)])
               => ret = u32(7999)
        /\ (service = ServiceWith({"audio", "telephony"})
                /\ device = [cat |-> "Toy", v |-> "Robot"])
               => ret = u32(6293508)

C8_Witness ==
    /\ pc = "make_class_of_device"
    /\ service = ServiceWith({"audio", "telephony"})
    /\ device = [cat |-> "Toy", v |-> "Robot"]
    /\ ret = {2, 11, 21, 22}

(* C9: Miscellaneous and Uncategorized return the caller's u32 verbatim,   *)
(* so make_class_of_device is major_service_class | major code | raw value *)
(* even when the raw value has bits outside bits 2-7, and the result is    *)
(* always a 32-bit value.                                                  *)
C9_RawPassthrough ==
    /\ (pc = "minor_device_class" /\ IsPassthrough(device)) =>
           ret = device.minor_device_class
    /\ (pc = "make_class_of_device" /\ IsPassthrough(device)) =>
           /\ ret = BitOr(BitOr(major_service_class(service),
                                major_device_class(device.cat)),
                          device.minor_device_class)
           /\ ret \subseteq BitPositions

C9_Witness ==
    /\ pc = "make_class_of_device"
    /\ device = [cat |-> "Uncategorized", minor_device_class |-> 0..31]
    /\ service = ServiceWith({"rendering"})
    /\ ret = 0..31

(* C10: within each enumerated category two distinct variants never have   *)
(* the same minor code, hence never the same device_class().               *)
C10_EnumInjective ==
    /\ (pc = "minor_device_class" /\ device.cat \in EnumCategories) =>
           \A x \in Variants(device.cat) \ {device.v} :
               minor_device_class([cat |-> device.cat, v |-> x]) # ret
    /\ (pc = "device_class" /\ device.cat \in EnumCategories) =>
           \A x \in Variants(device.cat) \ {device.v} :
               device_class([cat |-> device.cat, v |-> x]) # ret

C10_Witness ==
    /\ pc = "device_class"
    /\ device = [cat |-> "Computer", v |-> "PalmSizedPcPda"]
    /\ ret = u32(276)

====
